---- MODULE Spec2Model ----
(***************************************************************************)
(* Checkpointed, resumable crawl of the MyAnimeList anime catalogue:       *)
(* AnimeCheckpointHandler (anime_checkpoint.py), the listing generator     *)
(* paginate_anime (utils.py) and the driver loop                           *)
(* MALAnimeScraper.scrape_all_anime (scraper.py), run as one process that  *)
(* may crash at any point and be started again on the same checkpoint file.*)
(***************************************************************************)
EXTENDS Integers, Sequences, FiniteSets, TLC

\* ------------------------------------------------------------------ bounds
MaxId == 2            \* item IDs the site lists are 1..MaxId
MaxPage == 2          \* the site serves a short page at page index MaxPage
ContentLetters == 2   \* only the first ContentLetters partitions hold items
MaxRuns == 2          \* number of times the process is started
MaxInterval == 2      \* save_checkpoint_interval is drawn from 1..MaxInterval
MaxFaults == 1        \* item pipeline and checkpoint write failures injected

\* --------------------------------------------------------- program constants
PAGE_SIZE == 50

LETTERS ==
  << "A", "B", "C", "D", "E", "F", "G", "H", "I", "J", "K", "L", "M",
     "N", "O", "P", "Q", "R", "S", "T", "U", "V", "W", "X", "Y", "Z" >>

\* Python's None (JSON null)
None == "None"

IDs == 1 .. MaxId

\* ------------------------------------------------------------------- state
VARIABLES
  file,                     \* content of the checkpoint file on disk
  completed_ids,            \* handler.completed_ids
  current_letter,           \* handler.current_letter
  current_page,             \* handler.current_page
  pc,                       \* position of the process in its code
  ret,                      \* where the running save_checkpoint returns to
  start_letter_idx,         \* paginate_anime: start_letter_idx
  start_page,               \* paginate_anime: start_page
  idx,                      \* paginate_anime: idx of the for loop (0-based)
  page,                     \* paginate_anime: page
  entries,                  \* paginate_anime: anime_entries of the fetched page
  pos,                      \* paginate_anime: next entry of anime_entries
  anime_id,                 \* scrape_all_anime: anime["id"] of the yielded stub
  successful_scrapes,       \* scrape_all_anime: successful_scrapes
  save_checkpoint_interval, \* scrape_all_anime: save_checkpoint_interval
  runs,                     \* number of process starts so far
  faults,                   \* number of injected item and save failures so far
  last_flushed,             \* history: last completely written file content
  resumed,                  \* history: handler state right after its load
  failed_here,              \* history: IDs not stored by a dispatch of this page
  stored                    \* IDs whose output file f"{output_prefix}/{id}.json" exists

anime_vars ==
  << file, completed_ids, current_letter, current_page, pc, ret,
     start_letter_idx, start_page, idx, page, entries, pos, anime_id,
     successful_scrapes, save_checkpoint_interval, runs, faults,
     last_flushed, resumed, failed_here, stored >>

handler == << completed_ids, current_letter, current_page >>
generator == << start_letter_idx, start_page, idx, page, entries, pos >>

\* LivechartScraper.fetch_page_content (livechart_episodes.py); delays are in
\* tenths of a second
VARIABLES
  max_retries,              \* fetch_page_content: max_retries
  base_delay,               \* fetch_page_content: base_delay
  attempt,                  \* fetch_page_content: attempt of the for loop
  delay,                    \* fetch_page_content: delay slept before a retry
  retry_after,              \* fetch_page_content: retry_after, in seconds
  f_pc,                     \* position of the call in fetch_page_content
  f_result,                 \* what the call returned or raised
  header,                   \* history: Retry-After of the last response
  waited                    \* history: time slept since the last response

fetch_vars ==
  << max_retries, base_delay, attempt, delay, retry_after, f_pc, f_result,
     header, waited >>

\* no call of fetch_page_content has been made
FetchIdle ==
  /\ max_retries = 0
  /\ base_delay = 0
  /\ attempt = 0
  /\ delay = 0
  /\ retry_after = 0
  /\ f_pc = "idle"
  /\ f_result = "none"
  /\ header = "none"
  /\ waited = 0

\* main of livechart_episodes.py
VARIABLES
  progress_file,            \* content of output/scraping_progress.json
  output_file,              \* content of output/livechart_episodes.json
  completed_urls,           \* main: completed_urls
  all_results,              \* main: livechart_url of the entries of all_results
  last_position,            \* main: last_position
  start_found,              \* main: start_found
  cur,                      \* main: index of current_position in the loops
  lc_pc,                    \* position of main in its code
  lc_runs,                  \* number of times main was started
  lc_faults,                \* number of season fetches that failed so far
  fatal_at,                 \* history: index of the season whose fetch ended
                            \* with AnimeScraperError in this run, 0 if none
  visited                   \* history: indices of the positions this run has
                            \* called scrape_season for, in order

lc_vars ==
  << progress_file, output_file, completed_urls, all_results, last_position,
     start_found, cur, lc_pc, lc_runs, lc_faults, fatal_at, visited >>

\* Python's None where a current_position dict is expected
NoPosition == [year |-> 0, season |-> None, content_type |-> None]

\* no file at the path of the progress file, of the results file
NoProgressFile ==
  [kind |-> "absent", completed |-> {}, last_position |-> NoPosition]
NoOutputFile == [kind |-> "absent", results |-> {}]

\* main has not been started and output/ is empty
LcIdle ==
  /\ progress_file = NoProgressFile
  /\ output_file = NoOutputFile
  /\ completed_urls = {}
  /\ all_results = {}
  /\ last_position = NoPosition
  /\ start_found = FALSE
  /\ cur = 0
  /\ lc_pc = "idle"
  /\ lc_runs = 0
  /\ lc_faults = 0
  /\ fatal_at = 0
  /\ visited = << >>

\* InterceptedSession (retry.py); times are in units of 500 ms
VARIABLES
  clock,                    \* time.time() * 1000
  sleep_in_ms,              \* self.sleep_in_ms of each instance
  last_requested_at,        \* self.last_requested_at of each instance
  self,                     \* the instance whose request() is running, 0 if none
  now,                      \* request: now
  p_pc,                     \* position of the running request() in its code
  sent_at,                  \* history: when super().request() was last called
                            \* on each instance, -1 if never
  n_sent                    \* history: number of such calls on each instance

pace_vars ==
  << clock, sleep_in_ms, last_requested_at, self, now, p_pc, sent_at, n_sent >>

\* the instances of InterceptedSession
Instances == {1, 2}

\* time.time() * 1000 when the first instance is constructed: far from 0
Epoch == 2

\* no instance of InterceptedSession is in use
PaceIdle ==
  /\ clock = Epoch
  /\ sleep_in_ms = [s \in Instances |-> 2]
  /\ last_requested_at = [s \in Instances |-> 0]
  /\ self = 0
  /\ now = 0
  /\ p_pc = "idle"
  /\ sent_at = [s \in Instances |-> -1]
  /\ n_sent = [s \in Instances |-> 0]

\* ScraperManager.run_scrapers (run.py)
VARIABLES
  run_anime,                \* run_scrapers: run_anime
  run_people,               \* run_scrapers: run_people
  resume,                   \* run_scrapers: resume
  anime_checkpoint,         \* Path(self.anime_checkpoint).exists()
  people_checkpoint,        \* Path(self.people_checkpoint).exists()
  anime_task,               \* state of anime_task
  mgr_pc,                   \* position of run_scrapers in its code
  mgr_result,               \* what asyncio.run(main_async(args)) ended with
  mgr_runs,                 \* number of times the manager was started
  checkpoint_handler        \* the checkpoint path each driver's handler holds

mgr_vars ==
  << run_anime, run_people, resume, anime_checkpoint, people_checkpoint,
     anime_task, mgr_pc, mgr_result, mgr_runs, checkpoint_handler >>

\* the drivers run_scrapers can start
Drivers == {"anime", "people"}

\* no driver has constructed a checkpoint handler
NoHandlers == [d \in Drivers |-> "none"]

\* the manager has not been started and no checkpoint file exists
MgrIdle ==
  /\ run_anime = FALSE
  /\ run_people = FALSE
  /\ resume = FALSE
  /\ anime_checkpoint = FALSE
  /\ people_checkpoint = FALSE
  /\ anime_task = "none"
  /\ mgr_pc = "idle"
  /\ mgr_result = "none"
  /\ mgr_runs = 0
  /\ checkpoint_handler = NoHandlers

\* JSONDataStorage.store (scraper.py)
VARIABLES
  fs,                       \* the files of the output directory, by path
  data,                     \* store: the document to write
  output_path,              \* store: output_path
  st_pc,                    \* position of store in its code
  st_prev,                  \* what output_path held when store was called
  st_runs                   \* number of times store was called

store_vars == << fs, data, output_path, st_pc, st_prev, st_runs >>

\* the documents the scraper writes
MaxDoc == 2

\* the number of write calls json.dump needs for one document
DocChunks == 2

NoFile == [kind |-> "absent", doc |-> 0, chunks |-> 0]

\* "{output_path}.tmp"
temp_path_same(path) == path
temp_path(path) == path \o ".tmp"

OutputPaths == {"1.json"}

Paths == OutputPaths \cup {temp_path(path) : path \in OutputPaths}

\* store has not been called and the output directory is empty
StoreIdle ==
  /\ fs = [path \in Paths |-> NoFile]
  /\ data = 0
  /\ output_path = "None"
  /\ st_pc = "idle"
  /\ st_prev = NoFile
  /\ st_runs = 0

\* make_request (retry.py)
VARIABLES
  url,                      \* make_request: url
  attempt_number,           \* tenacity: retry_state.attempt_number
  response,                 \* status code of the last attempt, 0: no response
  r_wait,                   \* seconds tenacity slept before this attempt
  r_pc,                     \* position of make_request in its code
  r_calls                   \* number of times make_request was called

retry_vars == << url, attempt_number, response, r_wait, r_pc, r_calls >>

\* make_request has not been called
RetryIdle ==
  /\ url = "None"
  /\ attempt_number = 0
  /\ response = 0
  /\ r_wait = 0
  /\ r_pc = "idle"
  /\ r_calls = 0

\* MALUrlGenerator.generate (scraper.py)
VARIABLES
  mal_ids,                  \* the IDs of two calls of generate
  g_urls,                     \* what the two calls returned
  g_calls                   \* number of the calls made so far

gen_vars == << mal_ids, g_urls, g_calls >>

\* generate has not been called
GenIdle ==
  /\ mal_ids = << 0, 0 >>
  /\ g_urls = << "None", "None" >>
  /\ g_calls = 0

\* the state of the programs other than the anime crawl
other_vars ==
  << fetch_vars, lc_vars, pace_vars, mgr_vars, store_vars, retry_vars,
     gen_vars >>

\* the state of the programs other than fetch_page_content
fetch_others ==
  << anime_vars, lc_vars, pace_vars, mgr_vars, store_vars, retry_vars,
     gen_vars >>

\* the state of the programs other than main of livechart_episodes.py
lc_others ==
  << anime_vars, fetch_vars, pace_vars, mgr_vars, store_vars, retry_vars,
     gen_vars >>

\* the state of the programs other than InterceptedSession
pace_others ==
  << anime_vars, fetch_vars, lc_vars, mgr_vars, store_vars, retry_vars,
     gen_vars >>

\* the state of the programs other than ScraperManager
mgr_others ==
  << anime_vars, fetch_vars, lc_vars, pace_vars, store_vars, retry_vars,
     gen_vars >>

\* the state of the programs other than JSONDataStorage.store
store_others ==
  << anime_vars, fetch_vars, lc_vars, pace_vars, mgr_vars, retry_vars,
     gen_vars >>

\* the state of the programs other than make_request
retry_others ==
  << anime_vars, fetch_vars, lc_vars, pace_vars, mgr_vars, store_vars,
     gen_vars >>

\* the state of the programs other than MALUrlGenerator
gen_others ==
  << anime_vars, fetch_vars, lc_vars, pace_vars, mgr_vars, store_vars,
     retry_vars >>

OthersIdle ==
  FetchIdle /\ LcIdle /\ PaceIdle /\ MgrIdle /\ StoreIdle /\ RetryIdle
    /\ GenIdle

vars == << anime_vars, other_vars >>

\* ------------------------------------------------------------ file contents
\* A file content is a record; only kind "json" carries the three fields.
FileOf(k, ids, letter, pg) ==
  [kind |-> k, completed_ids |-> ids, current_letter |-> letter,
   current_page |-> pg]

\* no file at the path
Absent == FileOf("absent", << >>, None, 0)
\* open(path, "r") raises (permissions, path is a directory)
Unreadable == FileOf("unreadable", << >>, None, 0)
\* zero bytes: the state right after open(path, "w")
EmptyFile == FileOf("empty", << >>, None, 0)
\* a proper prefix of a JSON document
PartialFile == FileOf("partial", << >>, None, 0)
\* valid JSON that is not an object
NonDict == FileOf("nondict", << >>, None, 0)
\* a JSON object whose completed_ids cannot be made a set
BadIds == FileOf("badids", << >>, None, 0)

\* files that exist before the first run
InitFiles == {Absent, Unreadable, NonDict, BadIds}

Range(s) == {s[i] : i \in 1 .. Len(s)}

\* list(a_set): the elements in some order, each once
ListsOf(S) ==
  {s \in [1 .. Cardinality(S) -> S] : Range(s) = S}

\* ---------------------------------------------------------------- the site
\* result of ANIME_PATTERN.findall on a listing page: the IDs in page order
PageOf(n, a, b) == [i \in 1 .. n |-> IF i % 2 = 1 THEN a ELSE b]

PageLens == {0, 2, 30, PAGE_SIZE}

SitePages(i, p) ==
  IF i >= ContentLetters THEN {<< >>}
  ELSE {PageOf(n, ab[1], ab[2]) :
          n \in {m \in PageLens : p < MaxPage \/ m < PAGE_SIZE},
          ab \in {x \in IDs \X IDs : x[1] <= x[2]}}

\* ------------------------------------------------- AnimeCheckpointHandler
\* __init__: the fields before load_checkpoint runs
Defaults ==
  [completed_ids |-> {}, current_letter |-> None, current_page |-> 0,
   raised |-> FALSE]

\* load_checkpoint with "except (OSError, json.JSONDecodeError)": the
\* AttributeError and TypeError of a wrongly shaped document leave the method
load_checkpoint_narrow(f, h) ==
  CASE f.kind = "absent" -> h
    [] f.kind = "json" ->
         [completed_ids |-> Range(f.completed_ids),
          current_letter |-> f.current_letter,
          current_page |-> f.current_page,
          raised |-> FALSE]
    [] f.kind \in {"nondict", "badids"} -> [h EXCEPT !.raised = TRUE]
    [] OTHER -> Defaults

\* a load_checkpoint that does not read current_letter
load_checkpoint_no_letter(f, h) ==
  CASE f.kind = "absent" -> h
    [] f.kind = "json" ->
         [completed_ids |-> Range(f.completed_ids),
          current_letter |-> None,
          current_page |-> f.current_page,
          raised |-> FALSE]
    [] OTHER -> Defaults

\* load_checkpoint: the handler fields after loading file content f into a
\* handler with fields h; raised tells whether an exception leaves the method
load_checkpoint(f, h) ==
  CASE f.kind = "absent" -> h
    [] f.kind = "json" ->
         [completed_ids |-> Range(f.completed_ids),
          current_letter |-> f.current_letter,
          current_page |-> f.current_page,
          raised |-> FALSE]
    [] OTHER -> Defaults

\* an is_completed that finds no ID
is_completed_never(id) == FALSE

is_completed(id) == id \in completed_ids

\* mark_completed that assigns the set instead of adding to it
mark_completed_assign(id) == {id}

mark_completed(id) == completed_ids \cup {id}

\* a json.dump that writes the page after current_page
Dumps_next_page ==
  {FileOf("json", l, current_letter, current_page + 1) :
     l \in ListsOf(completed_ids)}

\* a json.dump that writes page 0 whatever current_page is
Dumps_page_zero ==
  {FileOf("json", l, current_letter, 0) : l \in ListsOf(completed_ids)}

\* json.dump of the handler fields: list(self.completed_ids) in some order
Dumps ==
  {FileOf("json", l, current_letter, current_page) : l \in ListsOf(completed_ids)}

\* ------------------------------------------------------------ paginate_anime
IndexOf(letter) == (CHOOSE i \in 1 .. Len(LETTERS) : LETTERS[i] = letter) - 1

\* "if letter and letter in LETTERS"
Resumable(letter) == letter # None /\ letter # "" /\ letter \in Range(LETTERS)

StartLetterIdx(letter) == IF Resumable(letter) THEN IndexOf(letter) ELSE 0

\* a start position that takes the page of the checkpoint whatever its letter
StartPage_keep(letter, pg) == pg

\* a start position that takes the letter of the checkpoint but not its page
StartPage_zero(letter, pg) == 0

StartPage(letter, pg) == IF Resumable(letter) THEN pg ELSE 0

\* a loop entry that starts every letter at start_page
FirstPage_keep(i) == start_page

\* "page = start_page if idx == start_letter_idx else 0"
FirstPage(i) == IF i = start_letter_idx THEN start_page ELSE 0

\* a termination test that also ends the letter on a full page
LastPage_inclusive(e) == Len(e) <= PAGE_SIZE

\* the pagination-termination test "len(anime_entries) < PAGE_SIZE"
LastPage(e) == Len(e) < PAGE_SIZE

\* positions of the page, from pos on, whose ID is not skipped by is_completed
Pending == {j \in pos .. Len(entries) : ~is_completed(entries[j])}

Min(S) == CHOOSE x \in S : \A y \in S : x <= y

Running == pc \notin {"idle", "crashed", "interrupted", "done"}

\* -------------------------------------------------------------------- Init
Init ==
  /\ file \in InitFiles
  /\ last_flushed = file
  /\ completed_ids = {}
  /\ current_letter = None
  /\ current_page = 0
  /\ pc = "idle"
  /\ ret = "none"
  /\ start_letter_idx = 0
  /\ start_page = 0
  /\ idx = 0
  /\ page = 0
  /\ entries = << >>
  /\ pos = 1
  /\ anime_id = 0
  /\ successful_scrapes = 0
  /\ save_checkpoint_interval \in 1 .. MaxInterval
  /\ runs = 0
  /\ faults = 0
  /\ resumed = Defaults
  /\ failed_here = {}
  /\ stored = {}
  /\ OthersIdle

\* ----------------------------------------------------------------- actions
\* scrape_all_anime: checkpoint = AnimeCheckpointHandler(checkpoint_path);
\* successful_scrapes = 0
NewHandler ==
  /\ ~Running
  /\ runs < MaxRuns
  /\ LET h == load_checkpoint(file, Defaults) IN
       /\ completed_ids' = h.completed_ids
       /\ current_letter' = h.current_letter
       /\ current_page' = h.current_page
       /\ resumed' = h
       /\ pc' = IF h.raised THEN "crashed" ELSE "paginate"
  /\ successful_scrapes' = 0
  /\ runs' = runs + 1
  /\ ret' = "none"
  /\ start_letter_idx' = 0 /\ start_page' = 0 /\ idx' = 0 /\ page' = 0
  /\ entries' = << >> /\ pos' = 1 /\ anime_id' = 0 /\ failed_here' = {}
  /\ UNCHANGED << file, last_flushed, save_checkpoint_interval, faults >>
  /\ UNCHANGED << stored, other_vars >>

\* paginate_anime: starting position from the checkpoint, first loop entry
PaginateStart ==
  /\ pc = "paginate"
  /\ start_letter_idx' = StartLetterIdx(current_letter)
  /\ start_page' = StartPage(current_letter, current_page)
  /\ idx' = start_letter_idx'
  /\ page' = start_page'
  /\ pc' = "fetch"
  /\ UNCHANGED << file, handler, ret, entries, pos, anime_id,
                  successful_scrapes, save_checkpoint_interval, runs, faults,
                  last_flushed, resumed, failed_here >>
  /\ UNCHANGED << stored, other_vars >>

\* client.get succeeds: text holds the entries of a page of the site
FetchOk ==
  /\ pc = "fetch"
  /\ \E e \in SitePages(idx, page) : entries' = e
  /\ pos' = 1
  /\ pc' = "update"
  /\ UNCHANGED << file, handler, ret, start_letter_idx, start_page, idx, page,
                  anime_id, successful_scrapes, save_checkpoint_interval, runs, faults,
                  last_flushed, resumed, failed_here >>
  /\ UNCHANGED << stored, other_vars >>

\* client.get or raise_for_status raises: log, sleep 5 seconds
FetchFail ==
  /\ pc = "fetch"
  /\ pc' = "fetch_sleep"
  /\ UNCHANGED << file, handler, ret, generator, anime_id, successful_scrapes,
                  save_checkpoint_interval, runs, faults, last_flushed, resumed,
                  failed_here >>
  /\ UNCHANGED << stored, other_vars >>

\* a retry that gives up the page and fetches the next one
FetchRetry_next_page ==
  /\ pc = "fetch_sleep"
  /\ page' = page + 1
  /\ pc' = "fetch"
  /\ UNCHANGED << file, handler, ret, start_letter_idx, start_page, idx,
                  entries, pos, anime_id, successful_scrapes,
                  save_checkpoint_interval, runs, faults, last_flushed, resumed,
                  failed_here >>
  /\ UNCHANGED << stored, other_vars >>

\* "continue": the same letter and page are fetched again
FetchRetry ==
  /\ pc = "fetch_sleep"
  /\ pc' = "fetch"
  /\ UNCHANGED << file, handler, ret, generator, anime_id, successful_scrapes,
                  save_checkpoint_interval, runs, faults, last_flushed, resumed,
                  failed_here >>
  /\ UNCHANGED << stored, other_vars >>

\* update_pagination that records the page after the fetched one
UpdatePagination_next ==
  /\ pc = "update"
  /\ current_letter' = LETTERS[idx + 1]
  /\ current_page' = page + 1
  /\ pc' = "save_open"
  /\ ret' = "parse"
  /\ UNCHANGED << file, completed_ids, generator, anime_id, successful_scrapes,
                  save_checkpoint_interval, runs, faults, last_flushed, resumed,
                  failed_here >>
  /\ UNCHANGED << stored, other_vars >>

\* update_pagination that sets the fields and does not save
UpdatePagination_nosave ==
  /\ pc = "update"
  /\ current_letter' = LETTERS[idx + 1]
  /\ current_page' = page
  /\ pc' = "parse"
  /\ UNCHANGED << file, completed_ids, ret, generator, anime_id,
                  successful_scrapes, save_checkpoint_interval, runs, faults,
                  last_flushed, resumed, failed_here >>
  /\ UNCHANGED << stored, other_vars >>

\* update_pagination(letter, page) up to its call of save_checkpoint
UpdatePagination ==
  /\ pc = "update"
  /\ current_letter' = LETTERS[idx + 1]
  /\ current_page' = page
  /\ pc' = "save_open"
  /\ ret' = "parse"
  /\ UNCHANGED << file, completed_ids, generator, anime_id, successful_scrapes,
                  save_checkpoint_interval, runs, faults, last_flushed, resumed,
                  failed_here >>
  /\ UNCHANGED << stored, other_vars >>

\* save_checkpoint: open(checkpoint_file, "w") truncates the file
SaveOpen ==
  /\ pc = "save_open"
  /\ file' = EmptyFile
  /\ pc' = "save_dump"
  /\ UNCHANGED << handler, ret, generator, anime_id, successful_scrapes,
                  save_checkpoint_interval, runs, faults, last_flushed, resumed,
                  failed_here >>
  /\ UNCHANGED << stored, other_vars >>

\* a save_checkpoint that lets the exception of open leave the driver
SaveOpenFail_raise ==
  /\ pc = "save_open"
  /\ faults < MaxFaults
  /\ faults' = faults + 1
  /\ pc' = "crashed"
  /\ ret' = "none"
  /\ UNCHANGED << file, handler, generator, anime_id, successful_scrapes,
                  save_checkpoint_interval, runs, last_flushed, resumed,
                  failed_here >>
  /\ UNCHANGED << stored, other_vars >>

\* save_checkpoint: open raises; the exception is logged
SaveOpenFail ==
  /\ pc = "save_open"
  /\ faults < MaxFaults
  /\ faults' = faults + 1
  /\ pc' = ret
  /\ ret' = "none"
  /\ UNCHANGED << file, handler, generator, anime_id, successful_scrapes,
                  save_checkpoint_interval, runs, last_flushed, resumed,
                  failed_here >>
  /\ UNCHANGED << stored, other_vars >>

\* save_checkpoint: json.dump and the close of the file complete
SaveDump ==
  /\ pc = "save_dump"
  /\ \E f \in Dumps : file' = f
  /\ last_flushed' = file'
  /\ pc' = ret
  /\ ret' = "none"
  /\ UNCHANGED << handler, generator, anime_id, successful_scrapes,
                  save_checkpoint_interval, runs, faults, resumed, failed_here >>
  /\ UNCHANGED << stored, other_vars >>

\* save_checkpoint: json.dump or the close raises; the exception is logged
SaveDumpFail ==
  /\ pc = "save_dump"
  /\ faults < MaxFaults
  /\ faults' = faults + 1
  /\ file' \in {EmptyFile, PartialFile}
  /\ pc' = ret
  /\ ret' = "none"
  /\ UNCHANGED << handler, generator, anime_id, successful_scrapes,
                  save_checkpoint_interval, runs, last_flushed, resumed,
                  failed_here >>
  /\ UNCHANGED << stored, other_vars >>

\* a for loop over the letters that steps over one of them
NextLetter_skip ==
  IF idx + 2 < Len(LETTERS)
    THEN /\ idx' = idx + 2
         /\ page' = FirstPage(idx + 2)
         /\ pc' = "fetch"
    ELSE /\ pc' = "final_save"
         /\ UNCHANGED << idx, page >>

\* leave the while loop of letter idx: next letter, or the generator ends
NextLetter ==
  IF idx + 1 < Len(LETTERS)
    THEN /\ idx' = idx + 1
         /\ page' = FirstPage(idx + 1)
         /\ pc' = "fetch"
    ELSE /\ pc' = "final_save"
         /\ UNCHANGED << idx, page >>

\* "if not anime_entries: break", else enter the for loop over the entries
Parse ==
  /\ pc = "parse"
  /\ IF entries = << >>
       THEN NextLetter
       ELSE /\ pc' = "iter"
            /\ UNCHANGED << idx, page >>
  /\ failed_here' = {}
  /\ UNCHANGED << file, handler, ret, start_letter_idx, start_page, entries,
                  pos, anime_id, successful_scrapes, save_checkpoint_interval,
                  runs, faults, last_flushed, resumed >>
  /\ UNCHANGED << stored, other_vars >>

\* a generator that fetches the next page once it has yielded one stub
GenNext_early_fetch ==
  /\ pc = "iter"
  /\ IF Pending # {} /\ pos = 1
       THEN /\ anime_id' = entries[Min(Pending)]
            /\ pos' = Min(Pending) + 1
            /\ pc' = "body"
            /\ page' = page
       ELSE /\ pos' = Len(entries) + 1
            /\ pc' = IF Pending # {} THEN "fetch" ELSE "page_end"
            /\ page' = IF Pending # {} THEN page + 1 ELSE page
            /\ UNCHANGED anime_id
  /\ UNCHANGED << file, handler, ret, start_letter_idx, start_page, idx,
                  entries, successful_scrapes, save_checkpoint_interval, runs, faults,
                  last_flushed, resumed, failed_here >>
  /\ UNCHANGED << stored, other_vars >>

\* the for loop over anime_entries up to its next yield or its end
GenNext ==
  /\ pc = "iter"
  /\ IF Pending # {}
       THEN /\ anime_id' = entries[Min(Pending)]
            /\ pos' = Min(Pending) + 1
            /\ pc' = "body"
       ELSE /\ pos' = Len(entries) + 1
            /\ pc' = "page_end"
            /\ UNCHANGED anime_id
  /\ UNCHANGED << file, handler, ret, start_letter_idx, start_page, idx, page,
                  entries, successful_scrapes, save_checkpoint_interval, runs, faults,
                  last_flushed, resumed, failed_here >>
  /\ UNCHANGED << stored, other_vars >>

\* "if len(anime_entries) < PAGE_SIZE: break", else page += 1
PageEnd ==
  /\ pc = "page_end"
  /\ IF LastPage(entries)
       THEN NextLetter
       ELSE /\ page' = page + 1
            /\ pc' = "fetch"
            /\ UNCHANGED idx
  /\ UNCHANGED << file, handler, ret, start_letter_idx, start_page, entries,
                  pos, anime_id, successful_scrapes, save_checkpoint_interval,
                  runs, faults, last_flushed, resumed, failed_here >>
  /\ UNCHANGED << stored, other_vars >>

\* loop body: "if checkpoint.is_completed(anime_id): continue"
BodyCheck ==
  /\ pc = "body"
  /\ pc' = IF is_completed(anime_id) THEN "iter" ELSE "scrape"
  /\ UNCHANGED << file, handler, ret, generator, anime_id, successful_scrapes,
                  save_checkpoint_interval, runs, faults, last_flushed, resumed,
                  failed_here >>
  /\ UNCHANGED << stored, other_vars >>

\* a periodic save that tests the count before it is incremented
PipelineOk_stale_count ==
  /\ pc = "scrape"
  /\ stored' = stored \cup {anime_id}
  /\ completed_ids' = mark_completed(anime_id)
  /\ successful_scrapes' = successful_scrapes + 1
  /\ IF successful_scrapes % save_checkpoint_interval = 0
       THEN pc' = "save_open" /\ ret' = "iter"
       ELSE pc' = "iter" /\ ret' = ret
  /\ UNCHANGED << file, current_letter, current_page, generator, anime_id,
                  save_checkpoint_interval, runs, faults, last_flushed, resumed,
                  failed_here >>
  /\ UNCHANGED other_vars

\* scrape succeeds and store returns, the output file of the ID is written:
\* mark_completed, count, periodic save
PipelineOk ==
  /\ pc = "scrape"
  /\ stored' = stored \cup {anime_id}
  /\ completed_ids' = mark_completed(anime_id)
  /\ successful_scrapes' = successful_scrapes + 1
  /\ IF successful_scrapes' % save_checkpoint_interval = 0
       THEN pc' = "save_open" /\ ret' = "iter"
       ELSE pc' = "iter" /\ ret' = ret
  /\ UNCHANGED << file, current_letter, current_page, generator, anime_id,
                  save_checkpoint_interval, runs, faults, last_flushed, resumed,
                  failed_here >>
  /\ UNCHANGED other_vars

\* scrape returns a falsy record: nothing stored, nothing marked
PipelineEmpty ==
  /\ pc = "scrape"
  /\ faults < MaxFaults
  /\ faults' = faults + 1
  /\ failed_here' = failed_here \cup {anime_id}
  /\ pc' = "iter"
  /\ UNCHANGED << file, handler, ret, generator, anime_id, successful_scrapes,
                  save_checkpoint_interval, runs, last_flushed, resumed >>
  /\ UNCHANGED << stored, other_vars >>

\* a driver that marks the ID before the store that raises
PipelineRaise_marked ==
  /\ pc = "scrape"
  /\ faults < MaxFaults
  /\ faults' = faults + 1
  /\ failed_here' = failed_here \cup {anime_id}
  /\ completed_ids' = mark_completed(anime_id)
  /\ pc' = "iter"
  /\ UNCHANGED << file, current_letter, current_page, ret, generator,
                  anime_id, successful_scrapes, save_checkpoint_interval, runs,
                  last_flushed, resumed >>
  /\ UNCHANGED << stored, other_vars >>

\* an except clause that gives up the page and moves to the next one
PipelineRaise_skip_page ==
  /\ pc = "scrape"
  /\ faults < MaxFaults
  /\ faults' = faults + 1
  /\ failed_here' = failed_here \cup {anime_id}
  /\ page' = page + 1
  /\ pc' = "fetch"
  /\ UNCHANGED << file, handler, ret, start_letter_idx, start_page, idx,
                  entries, pos, anime_id, successful_scrapes,
                  save_checkpoint_interval, runs, last_flushed, resumed >>
  /\ UNCHANGED << stored, other_vars >>

\* an except clause that leaves the page instead of continuing
PipelineRaise_abort ==
  /\ pc = "scrape"
  /\ faults < MaxFaults
  /\ faults' = faults + 1
  /\ failed_here' = failed_here \cup {anime_id}
  /\ pc' = "page_end"
  /\ UNCHANGED << file, handler, ret, generator, anime_id, successful_scrapes,
                  save_checkpoint_interval, runs, last_flushed, resumed >>
  /\ UNCHANGED << stored, other_vars >>

\* scrape or store raises: log, sleep 5 seconds, continue
PipelineRaise ==
  /\ pc = "scrape"
  /\ faults < MaxFaults
  /\ faults' = faults + 1
  /\ failed_here' = failed_here \cup {anime_id}
  /\ pc' = "iter"
  /\ UNCHANGED << file, handler, ret, generator, anime_id, successful_scrapes,
                  save_checkpoint_interval, runs, last_flushed, resumed >>
  /\ UNCHANGED << stored, other_vars >>

\* after the loop: the final checkpoint.save_checkpoint()
FinalSave ==
  /\ pc = "final_save"
  /\ pc' = "save_open"
  /\ ret' = "done"
  /\ UNCHANGED << file, handler, generator, anime_id, successful_scrapes,
                  save_checkpoint_interval, runs, faults, last_flushed, resumed,
                  failed_here >>
  /\ UNCHANGED << stored, other_vars >>

\* the process is killed; a file being written stays empty or partial, and
\* the item being handled may have been stored already
Crash ==
  /\ Running
  /\ pc' = "crashed"
  /\ IF pc = "save_dump"
       THEN file' \in {EmptyFile, PartialFile}
       ELSE file' = file
  /\ completed_ids' = {} /\ current_letter' = None /\ current_page' = 0
  /\ ret' = "none"
  /\ start_letter_idx' = 0 /\ start_page' = 0 /\ idx' = 0 /\ page' = 0
  /\ entries' = << >> /\ pos' = 1 /\ anime_id' = 0 /\ failed_here' = {}
  /\ successful_scrapes' = 0
  /\ resumed' = Defaults
  /\ stored' \in IF pc = "scrape" THEN {stored, stored \cup {anime_id}}
                                ELSE {stored}
  /\ UNCHANGED << save_checkpoint_interval, runs, faults, last_flushed >>
  /\ UNCHANGED other_vars

\* KeyboardInterrupt or asyncio.CancelledError is raised in the driver: neither
\* is an Exception, so no except clause of scrape_all_anime, paginate_anime or
\* save_checkpoint catches it; the with block of a running save closes the file
Interrupt ==
  /\ Running
  /\ pc' = "interrupted"
  /\ IF pc = "save_dump"
       THEN file' \in {EmptyFile, PartialFile}
       ELSE file' = file
  /\ completed_ids' = {} /\ current_letter' = None /\ current_page' = 0
  /\ ret' = "none"
  /\ start_letter_idx' = 0 /\ start_page' = 0 /\ idx' = 0 /\ page' = 0
  /\ entries' = << >> /\ pos' = 1 /\ anime_id' = 0 /\ failed_here' = {}
  /\ successful_scrapes' = 0
  /\ resumed' = Defaults
  /\ stored' \in IF pc = "scrape" THEN {stored, stored \cup {anime_id}}
                                ELSE {stored}
  /\ UNCHANGED << save_checkpoint_interval, runs, faults, last_flushed >>
  /\ UNCHANGED other_vars

Next ==
  \/ NewHandler
  \/ PaginateStart
  \/ FetchOk
  \/ FetchFail
  \/ FetchRetry
  \/ UpdatePagination
  \/ SaveOpen
  \/ SaveOpenFail
  \/ SaveDump
  \/ SaveDumpFail
  \/ Parse
  \/ GenNext
  \/ PageEnd
  \/ BodyCheck
  \/ PipelineOk
  \/ PipelineEmpty
  \/ PipelineRaise
  \/ FinalSave
  \/ Crash
  \/ Interrupt

Spec == Init /\ [][Next]_vars

TypeOK ==
  /\ completed_ids \subseteq IDs
  /\ idx \in 0 .. Len(LETTERS) - 1
  /\ page \in 0 .. MaxPage
  /\ runs \in 0 .. MaxRuns

\* ------------------------------------------------------------ properties
\* what a handler constructed on file content f holds
Loaded(f) == load_checkpoint(f, Defaults)

\* index in LETTERS of the partition stored in file content f, -1 if none
StoredIdx(f) ==
  IF Resumable(f.current_letter) THEN IndexOf(f.current_letter) ELSE -1

\* the step is the construction of a handler (its load included)
LoadStep == ~Running /\ runs' = runs + 1

\* C1: a crash during save_checkpoint, after the file was opened for writing
\* and before the write completed, leaves the previous valid checkpoint on
\* disk: a following load returns what the last completed write stored.
C1_SaveIsAtomic ==
  [][(pc = "save_dump" /\ pc' = "crashed")
       => Loaded(file') = Loaded(last_flushed)]_vars

\* C2: an ID that was part of a completely written checkpoint is in every
\* checkpoint written completely afterwards and in every state loaded
\* afterwards, over runs, crashes and resumes on the same file.
C2_FlushedIdsAreKept ==
  [][last_flushed.kind = "json"
       => /\ Range(last_flushed.completed_ids)
               \subseteq Range(last_flushed'.completed_ids)
          /\ LoadStep
               => Range(last_flushed.completed_ids) \subseteq completed_ids']_vars

\* C3: constructing a handler never raises, and when the file is absent,
\* unreadable or corrupt the handler holds the empty default state.
C3_LoadNeverRaises ==
  [][LoadStep
       => /\ pc' = "paginate"
          /\ file.kind # "json"
               => /\ completed_ids' = {}
                  /\ current_letter' = None
                  /\ current_page' = 0]_vars

C3_Witness ==
  /\ pc = "paginate"
  /\ runs = 2
  /\ file.kind \in {"empty", "partial"}
  /\ last_flushed.kind = "json"
  /\ completed_ids = {}

\* C4: a run resumed from completed set C and cursor (L, p), L a partition,
\* first fetches listing page (L, p), never fetches a page of a partition
\* before L nor a page of L below p, and never dispatches an ID of C.
C4_ResumeInvariant ==
  [][(Running' /\ Resumable(resumed'.current_letter))
       => /\ pc = "paginate"
               => /\ pc' = "fetch"
                  /\ LETTERS[idx' + 1] = resumed'.current_letter
                  /\ page' = resumed'.current_page
          /\ pc' \in {"fetch", "fetch_sleep"}
               => /\ idx' >= IndexOf(resumed'.current_letter)
                  /\ idx' = IndexOf(resumed'.current_letter)
                       => page' >= resumed'.current_page
          /\ pc' \in {"body", "scrape"}
               => anime_id' \notin resumed'.completed_ids]_vars

C4_Witness ==
  /\ resumed.current_letter = "B"
  /\ resumed.current_page = 2
  /\ resumed.completed_ids = {1}
  /\ pc = "scrape"
  /\ idx = 1
  /\ page = 2
  /\ entries = << 1, 2 >>
  /\ anime_id = 2

\* C5: within a run, after the load, no step of the handler or of the driver
\* loop removes an ID from completed_ids.
C5_CompletedOnlyGrows ==
  [][(Running /\ Running') => completed_ids \subseteq completed_ids']_vars

C5_Witness ==
  /\ Running
  /\ completed_ids = {1, 2}
  /\ failed_here # {}
  /\ file.kind = "json"

\* C6: within a run the cursor recorded by update_pagination either keeps
\* its partition, and then the page is unchanged or grows by exactly 1, or
\* changes its partition, and then the page recorded is 0.
C6_CursorMonotoneInRun ==
  [][(Running /\ Running')
       => \/ /\ current_letter' = current_letter
             /\ current_page' \in {current_page, current_page + 1}
          \/ /\ current_letter' # current_letter
             /\ current_page' = 0]_vars

C6_Witness ==
  /\ Running
  /\ resumed.current_letter = "A"
  /\ resumed.current_page = 1
  /\ current_letter = "B"
  /\ current_page = 1

\* C7: over runs, crashes and resumes on the same file, the index of the
\* partition stored in the checkpoint file never decreases.
C7_StoredPartitionMonotone ==
  [][(last_flushed.kind = "json" /\ last_flushed'.kind = "json")
       => StoredIdx(last_flushed') >= StoredIdx(last_flushed)]_vars

\* C8: after a fetched page the driver moves to the next partition at page 0
\* exactly when the page held zero or fewer than PAGE_SIZE stubs, counted
\* before the completed IDs are filtered out, and to the next page of the
\* same partition otherwise.
C8_PaginationTermination ==
  [][(pc \in {"parse", "page_end"} /\ pc' \in {"fetch", "final_save"})
       => IF Len(entries) = 0 \/ Len(entries) < PAGE_SIZE
            THEN \/ pc' = "fetch" /\ idx' = idx + 1 /\ page' = 0
                 \/ pc' = "final_save" /\ idx = Len(LETTERS) - 1
            ELSE pc' = "fetch" /\ idx' = idx /\ page' = page + 1]_vars

\* pages of sizes 50, 50, 30 of partition A were fetched at pages 0, 1, 2 and
\* the next fetch is partition B at page 0
C8_Witness ==
  /\ pc = "fetch"
  /\ start_letter_idx = 0
  /\ start_page = 0
  /\ idx = 1
  /\ page = 0
  /\ current_letter = "A"
  /\ current_page = 2
  /\ Len(entries) = 30

\* the first page of the current partition was fetched and held no stub
EmptyPartition ==
  /\ entries = << >>
  /\ page = 0
  /\ \/ pc \in {"update", "parse"}
     \/ pc \in {"save_open", "save_dump"} /\ ret = "parse"

\* C9: when the first page of a partition holds zero stubs the driver
\* dispatches no item, leaves completed_ids alone, writes to the checkpoint
\* only the partition key with page 0 and then moves to the next partition.
C9_EmptyPartition ==
  [][(EmptyPartition /\ Running')
       => /\ pc' \notin {"iter", "body", "scrape", "page_end"}
          /\ completed_ids' = completed_ids
          /\ (file' # file /\ file'.kind = "json")
               => /\ file'.current_letter = LETTERS[idx + 1]
                  /\ file'.current_page = 0
                  /\ Range(file'.completed_ids) = completed_ids
          /\ pc = "parse"
               => \/ pc' = "fetch" /\ idx' = idx + 1 /\ page' = 0
                  \/ pc' = "final_save" /\ idx = Len(LETTERS) - 1]_vars

C9_Witness ==
  /\ pc = "fetch"
  /\ idx = 1
  /\ page = 0
  /\ entries = << >>
  /\ file.kind = "json"
  /\ file.current_letter = "A"
  /\ file.current_page = 0

\* C10: an item whose pipeline does not succeed is not added to
\* completed_ids and the page goes on with the next stub; when the page
\* ends each of its stubs is completed or was dispatched without success.
C10_ItemIsolation ==
  [][/\ (pc = "scrape" /\ faults' > faults)
          => /\ completed_ids' = completed_ids
             /\ anime_id \notin completed_ids'
             /\ pc' = "iter"
             /\ << idx', page', entries', pos' >> = << idx, page, entries, pos >>
     /\ pc' = "page_end"
          => \A i \in 1 .. Len(entries') :
               entries'[i] \in completed_ids' \cup failed_here']_vars

C10_Witness ==
  /\ pc = "page_end"
  /\ entries = << 1, 2 >>
  /\ failed_here = {1}
  /\ completed_ids = {2}

\* C11: an item whose pipeline fails leaves the cursor alone: the step that
\* handles an item, failed or not, changes neither the position of the
\* generator nor the cursor of the handler, a failed one changes neither
\* completed_ids nor the file, and the move after a page is decided by the
\* size of the page alone.
C11_FailureLeavesCursor ==
  [][/\ (pc = "scrape" /\ Running')
          => /\ << idx', page', entries', pos' >> = << idx, page, entries, pos >>
             /\ << current_letter', current_page' >>
                  = << current_letter, current_page >>
             /\ faults' > faults
                  => /\ completed_ids' = completed_ids
                     /\ file' = file
                     /\ pc' = "iter"
     /\ (pc = "page_end" /\ pc' = "fetch")
          => << idx', page' >>
               = IF Len(entries) < PAGE_SIZE THEN << idx + 1, 0 >>
                                             ELSE << idx, page + 1 >>]_vars

C11_Witness ==
  /\ pc = "page_end"
  /\ idx = 0
  /\ page = 0
  /\ failed_here = {1}
  /\ completed_ids = {2}
  /\ current_letter = "A"
  /\ current_page = 0
  /\ file.kind = "json"
  /\ file.current_page = 0

\* C12: the items of a page are reached only through update_pagination and
\* the save_checkpoint it calls: the driver parses a fetched page only on
\* return from that save, the handler then holds the letter and page of the
\* fetched page, and a write that completes stores that letter and page.
C12_SaveOnCursorMove ==
  [][/\ (pc' = "parse" /\ pc # "parse")
          => /\ pc \in {"save_open", "save_dump"}
             /\ ret = "parse"
             /\ current_letter = LETTERS[idx + 1]
             /\ current_page = page
             /\ (pc = "save_dump" /\ file'.kind = "json")
                  => /\ file'.current_letter = LETTERS[idx + 1]
                     /\ file'.current_page = page
     /\ (pc' = "iter" /\ pc # "iter")
          => \/ pc \in {"parse", "body", "scrape"}
             \/ pc \in {"save_open", "save_dump"} /\ ret = "iter"
     /\ pc' \in {"iter", "body", "scrape"}
          => /\ current_letter' = LETTERS[idx' + 1]
             /\ current_page' = page']_vars

C12_Witness ==
  /\ pc = "scrape"
  /\ idx = 1
  /\ page = 1
  /\ faults = 0
  /\ file.kind = "json"
  /\ file.current_letter = "B"
  /\ file.current_page = 1

\* C13: when a successful completion makes successful_scrapes a multiple of
\* save_checkpoint_interval, save_checkpoint is entered next, before the
\* generator is asked for another item, and a write that completes stores
\* every ID marked so far.
C13_SaveEveryInterval ==
  [][/\ (pc = "scrape" /\ successful_scrapes' = successful_scrapes + 1)
          => /\ anime_id \in completed_ids'
             /\ successful_scrapes' % save_checkpoint_interval = 0
                  => pc' = "save_open" /\ ret' = "iter"
     /\ (pc = "save_dump" /\ ret = "iter" /\ file'.kind = "json")
          => Range(file'.completed_ids) = completed_ids]_vars

C13_Witness ==
  /\ pc = "save_open"
  /\ ret = "iter"
  /\ save_checkpoint_interval = 2
  /\ successful_scrapes = 2
  /\ completed_ids = {1, 2}

\* C14: the checkpoint is saved when the loop ends normally and when the run
\* is interrupted from outside: the run ends only on return from the final
\* save_checkpoint, and after an interruption the file holds every ID that
\* was marked completed.
C14_SaveOnExitAndInterrupt ==
  [][/\ pc' = "done" => (pc \in {"save_open", "save_dump"} /\ ret = "done")
     /\ pc' = "interrupted"
          => /\ file'.kind = "json"
             /\ Range(file'.completed_ids) = completed_ids]_vars

\* get_status / get_anime_checkpoint_status on a checkpoint file: a handler is
\* constructed on the path and its count and pagination state are reported;
\* run.py reports None when the path does not exist
get_status(f) ==
  IF f.kind = "absent" THEN [completed_count |-> 0, current_letter |-> None,
                             current_page |-> 0, exists |-> FALSE]
  ELSE LET h == load_checkpoint(f, Defaults) IN
         [completed_count |-> Cardinality(h.completed_ids),
          current_letter |-> h.current_letter,
          current_page |-> h.current_page,
          exists |-> TRUE]

\* C22: once the driver has persisted a state, a status query on the existing
\* checkpoint file reports the count, letter and page of the state persisted
\* last.
C22_StatusFaithful ==
  (last_flushed.kind = "json" /\ file.kind # "absent")
    => get_status(file) = get_status(last_flushed)

\* C23: a listing fetch starts only at the start of the generator, as the
\* retry of a failed fetch, after an empty page, or after the last stub of
\* the fetched page has been yielded or skipped.
C23_OneListingFetch ==
  [][(pc' = "fetch" /\ pc # "fetch")
       => \/ pc = "paginate"
          \/ pc = "fetch_sleep"
          \/ pc = "parse" /\ entries = << >>
          \/ pc = "page_end" /\ Pending = {} /\ pos > Len(entries)]_vars

C23_Witness ==
  /\ pc = "fetch"
  /\ idx = 0
  /\ page = 1
  /\ Len(entries) = PAGE_SIZE
  /\ pos = PAGE_SIZE + 1
  /\ completed_ids = {1, 2}
  /\ successful_scrapes = 2

\* C27: an ID whose pipeline succeeds was not in completed_ids before, and
\* is in it afterwards: within a run no ID is stored and marked twice.
C27_AtMostOncePerRun ==
  [][(pc = "scrape" /\ successful_scrapes' = successful_scrapes + 1)
       => /\ anime_id \notin completed_ids
          /\ completed_ids' = completed_ids \cup {anime_id}]_vars

C27_Witness ==
  /\ pc = "page_end"
  /\ Len(entries) = 30
  /\ entries[1] = 1
  /\ entries[2] = 1
  /\ successful_scrapes = 1
  /\ completed_ids = {1}
  /\ faults = 0
  /\ resumed.completed_ids = {}

\* C29: a save_checkpoint whose write fails returns to its caller with
\* completed_ids and the cursor unchanged and the driver goes on, and a later
\* write that completes stores every ID marked so far and the cursor.
C29_SaveFailureIsSurvived ==
  [][/\ (pc \in {"save_open", "save_dump"} /\ faults' = faults + 1)
          => /\ handler' = handler
             /\ pc' = ret
             /\ pc' \in {"parse", "iter", "done"}
     /\ (pc = "save_dump" /\ file'.kind = "json")
          => /\ Range(file'.completed_ids) = completed_ids
             /\ file'.current_letter = current_letter
             /\ file'.current_page = current_page
             /\ pc' = ret]_vars

C29_Witness ==
  /\ pc = "iter"
  /\ faults = 1
  /\ save_checkpoint_interval = 1
  /\ successful_scrapes = 1
  /\ completed_ids = {1}
  /\ failed_here = {}
  /\ file.kind = "json"
  /\ Range(file.completed_ids) = {}

\* C32: a listing fetch that fails is followed by the sleep and a fetch of the
\* same letter and page; from the failure to the fetch that succeeds the
\* driver leaves the cursor of the handler, the checkpoint file and
\* completed_ids alone, yields no item and does not end.
C32_FetchFailureIsRetried ==
  [][(pc \in {"fetch", "fetch_sleep"} /\ Running')
       => /\ << idx', page' >> = << idx, page >>
          /\ handler' = handler
          /\ file' = file
          /\ << anime_id', successful_scrapes' >>
               = << anime_id, successful_scrapes >>
          /\ pc = "fetch" => pc' \in {"fetch_sleep", "update"}
          /\ pc = "fetch_sleep" => pc' = "fetch"]_vars

\* the fetch of page 1 of partition A has failed; the checkpoint still holds
\* page 0 and the two IDs completed there
C32_Witness ==
  /\ pc = "fetch_sleep"
  /\ idx = 0
  /\ page = 1
  /\ current_letter = "A"
  /\ current_page = 0
  /\ completed_ids = {1, 2}
  /\ file.kind = "json"
  /\ file.current_page = 0
  /\ Range(file.completed_ids) = {1, 2}

\* C34: every ID in completed_ids has its output file stored; within a run
\* an ID enters completed_ids only in the step in which the store of its
\* record returns, and the step of an item whose scrape, transform or store
\* fails, or that is cut short by a crash or an interruption, adds the ID
\* neither to completed_ids nor to the checkpoint file.
C34_MarkedOnlyAfterStore ==
  /\ [](completed_ids \subseteq stored)
  /\ [](file.kind = "json" => Range(file.completed_ids) \subseteq stored)
  /\ [][(Running /\ Running' /\ completed_ids' # completed_ids)
          => /\ pc = "scrape"
             /\ faults' = faults
             /\ anime_id \in stored'
             /\ completed_ids' = completed_ids \cup {anime_id}]_vars
  /\ [][(pc = "scrape" /\ (faults' > faults \/ ~Running'))
          => /\ anime_id \notin completed_ids'
             /\ file' = file
             /\ file.kind = "json"
                  => anime_id \notin Range(file.completed_ids)]_vars

\* item 1 failed and item 2 was stored and marked; a later crash came after
\* the store of an item and before its mark_completed
C34_Witness ==
  /\ pc = "crashed"
  /\ runs = 2
  /\ faults = 1
  /\ stored = {1, 2}
  /\ file.kind = "json"
  /\ Range(file.completed_ids) = {2}

\* C35: in a run whose saves and items have not failed, the IDs that are in
\* completed_ids and not in the checkpoint file are at most
\* save_checkpoint_interval - 1 at every point, so that a crash loses at most
\* that many completed items.
C35_BoundedRework ==
  (Running /\ faults = 0)
    => Cardinality(completed_ids \ Range(file.completed_ids))
         <= save_checkpoint_interval - 1

\* the listing page a run resumed on file content f fetches first
StartOf(f) ==
  << StartLetterIdx(Loaded(f).current_letter),
     StartPage(Loaded(f).current_letter, Loaded(f).current_page) >>

\* position a is not after position b in the order of the listing pages
NotAfter(a, b) == a[1] < b[1] \/ (a[1] = b[1] /\ a[2] <= b[2])

\* the generator has yielded a stub of the fetched page to the driver
Dispatching == pc \in {"body", "scrape"}

NextLive ==
  \/ NewHandler
  \/ PaginateStart
  \/ FetchOk
  \/ FetchFail
  \/ FetchRetry
  \/ UpdatePagination
  \/ SaveOpen
  \/ SaveOpenFail
  \/ SaveDump
  \/ SaveDumpFail
  \/ Parse
  \/ GenNext
  \/ PageEnd
  \/ BodyCheck
  \/ PipelineOk
  \/ PipelineEmpty
  \/ PipelineRaise
  \/ FinalSave

\* the event loop runs the driver whenever it can take a step
\* (asyncio.sleep, client.get and the synchronous calls return), and a fetch
\* that is tried again and again succeeds at last
Progress ==
  \/ PaginateStart
  \/ FetchOk
  \/ FetchRetry
  \/ UpdatePagination
  \/ SaveOpen
  \/ SaveDump
  \/ Parse
  \/ GenNext
  \/ PageEnd
  \/ BodyCheck
  \/ PipelineOk
  \/ FinalSave

SpecLive ==
  /\ Init
  /\ [][NextLive]_vars
  /\ WF_vars(Progress)
  /\ SF_vars(FetchOk)

\* C28: a started run moves from one partition to the next one only, ends
\* its loop only after the last partition, and, left alone with fetches that
\* succeed at last, reaches the final save and ends.
C28_ReachesDone ==
  /\ [][/\ (Running /\ Running' /\ pc # "paginate" /\ idx' # idx)
             => idx' = idx + 1
        /\ pc' = "final_save" => idx = Len(LETTERS) - 1
        /\ pc' = "done" => (pc \in {"save_open", "save_dump"} /\ ret = "done")
       ]_vars
  /\ (pc = "paginate") ~> (pc = "done")

C28_Witness ==
  /\ pc = "done"
  /\ runs = 1
  /\ start_letter_idx = 0
  /\ idx = Len(LETTERS) - 1
  /\ completed_ids = {1, 2}
  /\ file.kind = "json"
  /\ file.current_letter = "Z"

\* --------------------------------------- runs that are started again and again
\* the driver is left alone as in SpecLive, and after a run has ended the
\* operator starts the next one on the same checkpoint file
SpecAgain ==
  /\ Init
  /\ [][NextLive]_vars
  /\ WF_vars(Progress)
  /\ SF_vars(FetchOk)
  /\ WF_vars(NewHandler)

\* C37: an ID whose dispatch failed in a run that is followed by a resumed
\* run is marked completed at last.
C37_FailedItemIsCompletedLater ==
  \A id \in IDs :
    (id \in failed_here /\ id \notin completed_ids /\ runs < MaxRuns)
      ~> (id \in completed_ids)

\* ------------------------------------ a run on a checkpoint without partition
\* values of current_letter that are no partition key: null, the empty
\* string, the "." that LETTERS leaves out, a lower-case letter
NoPartition == {None, "", ".", "a"}

\* checkpoint files of the documented shape whose current_letter is no
\* partition key
ResumeFiles ==
  {FileOf("json", CHOOSE l \in ListsOf(S) : TRUE, letter, pg) :
     S \in SUBSET IDs, letter \in NoPartition, pg \in 0 .. MaxPage}

InitResume ==
  /\ file \in ResumeFiles
  /\ last_flushed = file
  /\ completed_ids = {}
  /\ current_letter = None
  /\ current_page = 0
  /\ pc = "idle"
  /\ ret = "none"
  /\ start_letter_idx = 0
  /\ start_page = 0
  /\ idx = 0
  /\ page = 0
  /\ entries = << >>
  /\ pos = 1
  /\ anime_id = 0
  /\ successful_scrapes = 0
  /\ save_checkpoint_interval = 1
  /\ runs = MaxRuns - 1
  /\ faults = 0
  /\ resumed = Defaults
  /\ failed_here = {}
  /\ stored = Range(file.completed_ids)
  /\ OthersIdle

SpecResume == InitResume /\ [][NextLive]_vars

\* C38: a run whose loaded checkpoint holds no partition key starts at the
\* first partition and page 0 whatever page the checkpoint holds, the first
\* cursor it records is that page, it keeps the loaded completed_ids and it
\* dispatches none of them.
C38_NoPartitionStartsAtFirst ==
  [][(Running' /\ ~Resumable(resumed'.current_letter))
       => /\ pc = "paginate"
               => /\ pc' = "fetch"
                  /\ << start_letter_idx', start_page' >> = << 0, 0 >>
                  /\ << idx', page' >> = << 0, 0 >>
          /\ (pc = "update" /\ current_letter = resumed.current_letter)
               => << current_letter', current_page' >> = << LETTERS[1], 0 >>
          /\ resumed'.completed_ids \subseteq completed_ids'
          /\ pc' \in {"body", "scrape"}
               => anime_id' \notin resumed'.completed_ids]_vars

\* the checkpoint held "." with page 2 and ID 1; the run is at page 0 of the
\* first partition, has skipped ID 1 and dispatches ID 2
C38_Witness ==
  /\ resumed.current_letter = "."
  /\ resumed.current_page = 2
  /\ resumed.completed_ids = {1}
  /\ pc = "scrape"
  /\ idx = 0
  /\ page = 0
  /\ entries = << 1, 2 >>
  /\ anime_id = 2

\* ------------------------------------------- save and load, one after the other
\* current_letter of a handler or of a file: a letter of LETTERS or None
RtLetters == Range(LETTERS) \cup {None}

\* lists of IDs of a checkpoint file, duplicates included
RtLists == UNION {[1 .. n -> IDs] : n \in 0 .. MaxId}

\* checkpoint files of the documented shape
RtFiles ==
  {FileOf("json", l, letter, pg) :
     l \in RtLists, letter \in RtLetters, pg \in 0 .. MaxPage}

\* either a handler in any state that is about to save to a path without a
\* file, or a file of the documented shape and no handler yet
InitRT ==
  /\ ret = "none"
  /\ start_letter_idx = 0
  /\ start_page = 0
  /\ idx = 0
  /\ page = 0
  /\ entries = << >>
  /\ pos = 1
  /\ anime_id = 0
  /\ successful_scrapes = 0
  /\ save_checkpoint_interval = 1
  /\ faults = 0
  /\ resumed = Defaults
  /\ failed_here = {}
  /\ stored = {}
  /\ \/ /\ file = Absent
        /\ completed_ids \in SUBSET IDs
        /\ current_letter \in RtLetters
        /\ current_page \in 0 .. MaxPage
        /\ pc = "paginate"
        /\ runs = 1
     \/ /\ file \in RtFiles
        /\ completed_ids = {}
        /\ current_letter = None
        /\ current_page = 0
        /\ pc = "idle"
        /\ runs = 0
  /\ last_flushed = file
  /\ OthersIdle

\* checkpoint.save_checkpoint() is called on the handler
RtSave ==
  /\ pc = "paginate"
  /\ pc' = "save_open"
  /\ ret' = "done"
  /\ UNCHANGED << file, handler, generator, anime_id, successful_scrapes,
                  save_checkpoint_interval, runs, faults, last_flushed, resumed,
                  failed_here >>
  /\ UNCHANGED << stored, other_vars >>

NextRT ==
  \/ NewHandler
  \/ RtSave
  \/ SaveOpen
  \/ SaveDump

SpecRT == InitRT /\ [][NextRT]_vars

\* same set of completed_ids, same current_letter, same current_page
Equivalent(f, g) ==
  /\ f.kind = g.kind
  /\ Range(f.completed_ids) = Range(g.completed_ids)
  /\ f.current_letter = g.current_letter
  /\ f.current_page = g.current_page

\* C24: a fresh handler that loads a file saved from a handler state has that
\* state: the same completed_ids, current_letter and current_page.
C24_LoadOfSave ==
  [][(LoadStep /\ pc = "done" /\ file \in Dumps)
       => /\ handler' = handler
          /\ pc' = "paginate"]_vars

C24_Witness ==
  /\ pc = "paginate"
  /\ runs = 2
  /\ resumed.completed_ids = {1, 2}
  /\ resumed.current_letter = None
  /\ resumed.current_page = 2
  /\ completed_ids = {1, 2}
  /\ current_letter = None
  /\ current_page = 2
  /\ file = FileOf("json", << 2, 1 >>, None, 2)

\* C25: a handler that has loaded a file of the documented shape and saves
\* writes a file with the same set of completed_ids, the same current_letter
\* and the same current_page.
C25_SaveOfLoad ==
  [][(/\ pc = "save_dump"
      /\ pc' = "done"
      /\ last_flushed \in RtFiles
      /\ LET h == load_checkpoint(last_flushed, Defaults) IN
           handler = << h.completed_ids, h.current_letter, h.current_page >>)
       => Equivalent(file', last_flushed)]_vars

C25_Witness ==
  /\ pc = "done"
  /\ runs = 1
  /\ resumed.completed_ids = {1}
  /\ resumed.current_letter = "Q"
  /\ resumed.current_page = 1
  /\ file = FileOf("json", << 1 >>, "Q", 1)
  /\ last_flushed = file

\* ===================================================== fetch_page_content
MaxRetries == 6       \* max_retries of a call is drawn from 1..MaxRetries

\* base_delay of a call, in tenths of a second (0.5 s, 1.0 s, 3.0 s)
BaseDelays == {5, 10, 30}

\* random.uniform(0.1, 1.0), in tenths of a second
JITTER_MIN == 1
JITTER_MAX == 10
Jitters == {JITTER_MIN, 5, JITTER_MAX}

\* the defaults of fetch_page_content: max_retries = 3, base_delay = 3.0
DEFAULT_MAX_RETRIES == 3
DEFAULT_BASE_DELAY == 30

\* wait_exponential(max=60) of make_request, in tenths of a second: the only
\* maximum delay the repository configures
MAX_DELAY == 600

\* the Retry-After header of a 429 response: absent, delta-seconds, HTTP-date
RetryAfterHeaders == {"absent", "2", "date"}

\* int(response.headers.get('Retry-After', base_delay)); base_delay is a float
\* in seconds and int() truncates it
IntRetryAfter(h, b) ==
  CASE h = "absent" -> b \div 10
    [] h = "2" -> 2
    [] OTHER -> -1

\* the anime crawl is not running
AnimeIdle ==
  /\ file = Absent
  /\ last_flushed = Absent
  /\ completed_ids = {}
  /\ current_letter = None
  /\ current_page = 0
  /\ pc = "idle"
  /\ ret = "none"
  /\ start_letter_idx = 0
  /\ start_page = 0
  /\ idx = 0
  /\ page = 0
  /\ entries = << >>
  /\ pos = 1
  /\ anime_id = 0
  /\ successful_scrapes = 0
  /\ save_checkpoint_interval = 1
  /\ runs = 0
  /\ faults = 0
  /\ resumed = Defaults
  /\ failed_here = {}
  /\ stored = {}

\* enter fetch_page_content(url, m, b): the for loop starts at attempt 0
fetch_page_content(m, b) ==
  /\ max_retries' = m
  /\ base_delay' = b
  /\ attempt' = 0
  /\ delay' = 0
  /\ retry_after' = 0
  /\ f_pc' = "attempt"
  /\ f_result' = "none"
  /\ header' = "none"
  /\ waited' = 0

\* "continue", or the end of the except clause: the for loop takes its next
\* attempt, or range(max_retries) is used up and the function ends without a
\* return statement
NextAttempt ==
  IF attempt + 1 < max_retries
    THEN /\ attempt' = attempt + 1
         /\ f_pc' = "attempt"
         /\ f_result' = f_result
    ELSE /\ attempt' = attempt
         /\ f_pc' = "returned"
         /\ f_result' = "None"

\* a caller outside the drivers calls with any arguments
FetchCall ==
  /\ f_pc \in {"idle", "returned", "raised"}
  /\ \E m \in 1 .. MaxRetries, b \in BaseDelays : fetch_page_content(m, b)
  /\ UNCHANGED fetch_others

\* top of the loop body: the backoff sleep before a retry
FetchBackoff ==
  /\ f_pc = "attempt"
  /\ IF attempt > 0
       THEN /\ \E j \in Jitters : delay' = base_delay * (2 ^ attempt) + j
            /\ waited' = waited + delay'
       ELSE /\ delay' = delay
            /\ waited' = waited
  /\ f_pc' = "get"
  /\ UNCHANGED << max_retries, base_delay, attempt, retry_after, f_result,
                  header >>
  /\ UNCHANGED fetch_others

\* requests.get answers 2xx: return response.text
FetchBody ==
  /\ f_pc = "get"
  /\ f_pc' = "returned"
  /\ f_result' = "body"
  /\ header' = "none"
  /\ waited' = 0
  /\ UNCHANGED << max_retries, base_delay, attempt, delay, retry_after >>
  /\ UNCHANGED fetch_others

\* requests.get answers 429: int() of the header, which raises ValueError on
\* an HTTP-date (not a RequestException, so it leaves the function), else the
\* sleep of retry_after seconds
FetchRateLimited ==
  /\ f_pc = "get"
  /\ \E h \in RetryAfterHeaders :
       /\ header' = h
       /\ IF IntRetryAfter(h, base_delay) < 0
            THEN /\ f_pc' = "raised"
                 /\ f_result' = "ValueError"
                 /\ retry_after' = retry_after
                 /\ waited' = 0
            ELSE /\ f_pc' = "rate_limited"
                 /\ f_result' = f_result
                 /\ retry_after' = IntRetryAfter(h, base_delay)
                 /\ waited' = 10 * retry_after'
  /\ UNCHANGED << max_retries, base_delay, attempt, delay >>
  /\ UNCHANGED fetch_others

\* the "continue" after the sleep of a 429
FetchRateLimitedContinue ==
  /\ f_pc = "rate_limited"
  /\ NextAttempt
  /\ UNCHANGED << max_retries, base_delay, delay, retry_after, header,
                  waited >>
  /\ UNCHANGED fetch_others

\* requests.get or raise_for_status raises a RequestException
FetchException ==
  /\ f_pc = "get"
  /\ IF attempt = max_retries - 1
       THEN /\ f_pc' = "raised"
            /\ f_result' = "AnimeScraperError"
            /\ attempt' = attempt
       ELSE NextAttempt
  /\ header' = "none"
  /\ waited' = 0
  /\ UNCHANGED << max_retries, base_delay, delay, retry_after >>
  /\ UNCHANGED fetch_others

InitFetch ==
  /\ AnimeIdle
  /\ FetchIdle
  /\ LcIdle
  /\ PaceIdle
  /\ MgrIdle
  /\ StoreIdle
  /\ RetryIdle
  /\ GenIdle

NextFetch ==
  \/ FetchCall
  \/ FetchBackoff
  \/ FetchBody
  \/ FetchRateLimited
  \/ FetchRateLimitedContinue
  \/ FetchException

SpecFetch == InitFetch /\ [][NextFetch]_vars

\* C16: a 429 response does not use up an attempt: the "continue" after its
\* sleep retries with the attempt number it had, so the attempts left for
\* transient failures stay max_retries - attempt.
C16_RateLimitedIsFree ==
  [][f_pc = "rate_limited"
       => /\ f_pc' = "attempt"
          /\ max_retries' - attempt' = max_retries - attempt]_vars

\* C17: a call of fetch_page_content that has ended has returned the body of
\* a response or has raised AnimeScraperError.
C17_DefiniteOutcome ==
  /\ f_pc = "returned" => f_result = "body"
  /\ f_pc = "raised" => f_result = "AnimeScraperError"

ServerWait(h, b) == IF h = "2" THEN 20 ELSE b

\* C33: when the request after a rate-limited response is issued, the
\* fetcher has waited exactly the Retry-After duration of that response, or
\* base_delay when the response had no such header.
C33_WaitsRetryAfter ==
  (f_pc = "get" /\ header # "none") => waited = ServerWait(header, base_delay)

\* ============================================ main of livechart_episodes.py
MaxYears == 1         \* the first MaxYears entries of self.years are crawled

\* LivechartScraper.__init__
seasons == << "winter", "spring", "summer", "fall" >>
all_years == << 2024, 2025, 2026 >>
years ==
  SubSeq(all_years, 1, IF MaxYears < Len(all_years) THEN MaxYears
                                                    ELSE Len(all_years))
content_types == << "tv", "movies", "ovas" >>

\* the current_position values of the three nested for loops, in their order
NPos == Len(years) * Len(seasons) * Len(content_types)

Positions ==
  [i \in 1 .. NPos |->
     [year |-> years[((i - 1) \div (Len(seasons) * Len(content_types))) + 1],
      season |-> seasons[(((i - 1) \div Len(content_types)) % Len(seasons)) + 1],
      content_type |-> content_types[((i - 1) % Len(content_types)) + 1]]]

\* what fetch_page_content(season_url) ends with (SpecFetch)
FetchOutcomes == {"body", "AnimeScraperError", "None", "ValueError"}

\* scrape_season: the livechart_url values of the entries it returns; every
\* failure of the season fetch is caught and gives []. Season i lists the one
\* URL i.
scrape_season(i, outcome) ==
  IF outcome = "body" THEN {i} ELSE {}

\* save_progress: json.dump of the completed list and the position
save_progress(urls, position) ==
  [kind |-> "json", completed |-> urls, last_position |-> position]

\* save_results: json.dump of all_results
save_results(results) ==
  [kind |-> "json", results |-> results]

LcRunning == lc_pc \in {"loop", "save_results", "final"}

\* start_found = False if last_position else True
StartFound_always(position) == TRUE
StartFound(position) == position = NoPosition

\* main up to the first iteration: load_existing_data, start_found
LcStart ==
  /\ ~LcRunning
  /\ lc_runs < MaxRuns
  /\ lc_runs' = lc_runs + 1
  /\ all_results' = IF output_file.kind = "json" THEN output_file.results
                                                ELSE {}
  /\ completed_urls' = IF progress_file.kind = "json"
                         THEN progress_file.completed ELSE {}
  /\ last_position' = IF progress_file.kind = "json"
                        THEN progress_file.last_position ELSE NoPosition
  /\ start_found' = StartFound(last_position')
  /\ cur' = 1
  /\ lc_pc' = "loop"
  /\ fatal_at' = 0
  /\ visited' = << >>
  /\ UNCHANGED << progress_file, output_file, lc_faults >>
  /\ UNCHANGED lc_others

\* the end of one iteration: the next position, or the loops are over
LcAdvance ==
  IF cur < NPos
    THEN cur' = cur + 1 /\ lc_pc' = "loop"
    ELSE cur' = cur /\ lc_pc' = "final"

\* an iteration that is skipped because the stored position is not reached
LcSkip ==
  /\ lc_pc = "loop"
  /\ ~start_found
  /\ Positions[cur] # last_position
  /\ LcAdvance
  /\ UNCHANGED << progress_file, output_file, completed_urls, all_results,
                  last_position, start_found, lc_runs, lc_faults, fatal_at,
                  visited >>
  /\ UNCHANGED lc_others

\* an iteration that scrapes: scrape_season, the new entries, save_progress
LcSeason ==
  /\ lc_pc = "loop"
  /\ start_found \/ Positions[cur] = last_position
  /\ start_found' = TRUE
  /\ \E outcome \in FetchOutcomes :
       /\ IF outcome = "body"
            THEN lc_faults' = lc_faults /\ fatal_at' = fatal_at
            ELSE /\ lc_faults < MaxFaults
                 /\ lc_faults' = lc_faults + 1
                 /\ fatal_at' = IF outcome = "AnimeScraperError" THEN cur
                                                                ELSE fatal_at
       /\ all_results' =
            all_results \cup (scrape_season(cur, outcome) \ completed_urls)
       /\ completed_urls' = completed_urls \cup scrape_season(cur, outcome)
  /\ progress_file' = save_progress(completed_urls', Positions[cur])
  /\ lc_pc' = "save_results"
  /\ visited' = Append(visited, cur)
  /\ UNCHANGED << output_file, last_position, cur, lc_runs >>
  /\ UNCHANGED lc_others

\* save_results, the sleep between seasons, and the next iteration
LcSaveResults ==
  /\ lc_pc = "save_results"
  /\ output_file' = save_results(all_results)
  /\ LcAdvance
  /\ UNCHANGED << progress_file, completed_urls, all_results, last_position,
                  start_found, lc_runs, lc_faults, fatal_at, visited >>
  /\ UNCHANGED lc_others

\* the final save after the loops
LcFinal ==
  /\ lc_pc = "final"
  /\ progress_file' = save_progress(completed_urls, Positions[cur])
  /\ output_file' = save_results(all_results)
  /\ lc_pc' = "done"
  /\ UNCHANGED << completed_urls, all_results, last_position, start_found,
                  cur, lc_runs, lc_faults, fatal_at, visited >>
  /\ UNCHANGED lc_others

\* except KeyboardInterrupt: save_progress, save_results, return
LcInterrupt ==
  /\ lc_pc \in {"loop", "save_results"}
  /\ progress_file' = save_progress(completed_urls, Positions[cur])
  /\ output_file' = save_results(all_results)
  /\ lc_pc' = "interrupted"
  /\ UNCHANGED << completed_urls, all_results, last_position, start_found,
                  cur, lc_runs, lc_faults, fatal_at, visited >>
  /\ UNCHANGED lc_others

\* the process is killed between two statements of main, or in the dump of
\* save_results, which has truncated the results file by then
Corrupt == [kind |-> "corrupt", results |-> {}]

LcCrash ==
  /\ LcRunning
  /\ output_file' \in IF lc_pc = "save_results" THEN {output_file, Corrupt}
                                                ELSE {output_file}
  /\ lc_pc' = "crashed"
  /\ UNCHANGED << progress_file, completed_urls, all_results, last_position,
                  start_found, cur, lc_runs, lc_faults, fatal_at, visited >>
  /\ UNCHANGED lc_others

InitLC ==
  /\ AnimeIdle
  /\ FetchIdle
  /\ LcIdle
  /\ PaceIdle
  /\ MgrIdle
  /\ StoreIdle
  /\ RetryIdle
  /\ GenIdle

NextLC ==
  \/ LcStart
  \/ LcSkip
  \/ LcSeason
  \/ LcSaveResults
  \/ LcFinal
  \/ LcInterrupt
  \/ LcCrash

SpecLC == InitLC /\ [][NextLC]_vars

\* C15: once the fetch of a season page has failed with AnimeScraperError,
\* main saves its progress and results for that season and the run is over,
\* with a progress file that designates that season, so that the next run
\* starts with it.
C15_FatalPageHaltsRun ==
  fatal_at # 0
    => /\ progress_file.kind = "json"
       /\ progress_file.last_position = Positions[fatal_at]
       /\ \/ lc_pc = "save_results" /\ cur = fatal_at
          \/ ~LcRunning

\* C39: whenever main is not running, so that a run can be started, every
\* URL of the completed list of the progress file has its entry in the
\* results file.
C39_ProgressWithinResults ==
  ~LcRunning
    => progress_file.completed
         \subseteq (IF output_file.kind = "json" THEN output_file.results
                                                  ELSE {})

\* the index of the position a run starts with, and the positions from
\* index s to the end of the iteration order
StartIdx(position) ==
  IF position = NoPosition THEN 1
  ELSE CHOOSE i \in 1 .. NPos : Positions[i] = position
FromPosition(s) == [k \in 1 .. (NPos - s + 1) |-> s + k - 1]
IsPrefix(a, b) == Len(a) <= Len(b) /\ a = SubSeq(b, 1, Len(a))

\* C40: the positions a run calls scrape_season for are, in order, the
\* positions from the stored last_position (from the first one without a
\* stored position) onwards, and all of them once the loops are over.
C40_ResumeVisits ==
  /\ IsPrefix(visited, FromPosition(StartIdx(last_position)))
  /\ lc_pc \in {"final", "done"}
       => visited = FromPosition(StartIdx(last_position))

\* a resumed run that started in the middle of the order is over
C40_Witness ==
  /\ lc_pc = "done"
  /\ last_position # NoPosition
  /\ StartIdx(last_position) > 2
  /\ Len(visited) > 1

\* ======================================================= InterceptedSession
MaxClock == 8         \* the clock stops at MaxClock

\* the sleep_in_ms an instance is constructed with (500 ms, 1000 ms)
PaceSleeps == {1, 2}

\* delay = (self.sleep_in_ms - delta) / 1000, in seconds, and what
\* time.sleep(delay) lets pass at least, in units of the clock
request_delay(t, last, spacing) == spacing - (t - last)

\* time passes, between two calls or between two statements
PaceTick ==
  /\ clock < MaxClock
  /\ clock' = clock + 1
  /\ UNCHANGED << sleep_in_ms, last_requested_at, self, now, p_pc, sent_at,
                  n_sent >>
  /\ UNCHANGED pace_others

\* session.request(method, url) is called on instance s: now = time.time()*1000
PaceRequest ==
  /\ p_pc = "idle"
  /\ \E s \in Instances :
       /\ n_sent[s] < MaxClock
       /\ self' = s
  /\ now' = clock
  /\ p_pc' = "delta"
  /\ UNCHANGED << clock, sleep_in_ms, last_requested_at, sent_at, n_sent >>
  /\ UNCHANGED pace_others

\* delta = now - self.last_requested_at; time.sleep(delay) if delta is below
\* self.sleep_in_ms: the sleep returns when at least delay has passed
PaceSleep ==
  /\ p_pc = "delta"
  /\ IF now - last_requested_at[self] < sleep_in_ms[self]
       THEN /\ clock + request_delay(now, last_requested_at[self],
                                     sleep_in_ms[self]) <= MaxClock
            /\ clock' = clock + request_delay(now, last_requested_at[self],
                                              sleep_in_ms[self])
       ELSE clock' = clock
  /\ p_pc' = "stamp"
  /\ UNCHANGED << sleep_in_ms, last_requested_at, self, now, sent_at, n_sent >>
  /\ UNCHANGED pace_others

\* a stamp that reuses the time read before the sleep
PaceSend_stale_now ==
  /\ p_pc = "stamp"
  /\ last_requested_at' = [last_requested_at EXCEPT ![self] = now]
  /\ sent_at' = [sent_at EXCEPT ![self] = clock]
  /\ n_sent' = [n_sent EXCEPT ![self] = n_sent[self] + 1]
  /\ self' = 0
  /\ p_pc' = "idle"
  /\ UNCHANGED << clock, sleep_in_ms, now >>
  /\ UNCHANGED pace_others

\* self.last_requested_at = time.time() * 1000; super().request(...)
PaceSend ==
  /\ p_pc = "stamp"
  /\ last_requested_at' = [last_requested_at EXCEPT ![self] = clock]
  /\ sent_at' = [sent_at EXCEPT ![self] = clock]
  /\ n_sent' = [n_sent EXCEPT ![self] = n_sent[self] + 1]
  /\ self' = 0
  /\ p_pc' = "idle"
  /\ UNCHANGED << clock, sleep_in_ms, now >>
  /\ UNCHANGED pace_others

\* InterceptedSession(sleep_in_ms) for each instance
InitPace ==
  /\ AnimeIdle
  /\ FetchIdle
  /\ LcIdle
  /\ MgrIdle
  /\ StoreIdle
  /\ RetryIdle
  /\ GenIdle
  /\ clock = Epoch
  /\ sleep_in_ms \in [Instances -> PaceSleeps]
  /\ last_requested_at = [s \in Instances |-> 0]
  /\ self = 0
  /\ now = 0
  /\ p_pc = "idle"
  /\ sent_at = [s \in Instances |-> -1]
  /\ n_sent = [s \in Instances |-> 0]

NextPace ==
  \/ PaceTick
  \/ PaceRequest
  \/ PaceSleep
  \/ PaceSend

SpecPace == InitPace /\ [][NextPace]_vars

MgrCall ==
  /\ mgr_pc \in {"idle", "returned", "raised"}
  /\ mgr_runs < MaxRuns
  /\ mgr_runs' = mgr_runs + 1
  /\ run_anime' \in BOOLEAN
  /\ run_people' \in BOOLEAN
  /\ resume' \in BOOLEAN
  /\ anime_task' = "none"
  /\ mgr_result' = "none"
  /\ mgr_pc' = "delete"
  /\ checkpoint_handler' = NoHandlers
  /\ UNCHANGED << anime_checkpoint, people_checkpoint >>
  /\ UNCHANGED mgr_others

\* "if not resume": unlink the checkpoint files of the requested scrapers
MgrDelete ==
  /\ mgr_pc = "delete"
  /\ anime_checkpoint' = IF ~resume /\ run_anime THEN FALSE
                                                 ELSE anime_checkpoint
  /\ people_checkpoint' = IF ~resume /\ run_people THEN FALSE
                                                   ELSE people_checkpoint
  /\ mgr_pc' = "start_anime"
  /\ UNCHANGED << run_anime, run_people, resume, anime_task, mgr_result,
                  mgr_runs >>
  /\ UNCHANGED << checkpoint_handler, mgr_others >>

\* the exception leaves run_scrapers and main_async; asyncio.run cancels the
\* tasks that are left, and a task cancelled before its first step runs none
\* of its coroutine
MgrRaise(exception) ==
  /\ mgr_pc' = "raised"
  /\ mgr_result' = exception
  /\ anime_task' = IF anime_task = "created" THEN "cancelled" ELSE anime_task

\* "if run_anime": setup_anime_scraper, whose GCSDataStorage may raise, and
\* asyncio.create_task(scrape_all_anime(...)), which schedules the task
MgrStartAnime ==
  /\ mgr_pc = "start_anime"
  /\ IF run_anime
       THEN \/ /\ anime_task' = "created"
               /\ mgr_pc' = "start_people"
               /\ mgr_result' = mgr_result
            \/ MgrRaise("GCSError")
       ELSE /\ mgr_pc' = "start_people"
            /\ UNCHANGED << anime_task, mgr_result >>
  /\ UNCHANGED << run_anime, run_people, resume, anime_checkpoint,
                  people_checkpoint, mgr_runs >>
  /\ UNCHANGED << checkpoint_handler, mgr_others >>

\* "if run_people": setup_people_scraper, then the call
\* scrape_all_people(output_prefix=, checkpoint_path=,
\* save_checkpoint_interval=) of a function that takes output_prefix only:
\* TypeError at the call, before create_task
MgrStartPeople ==
  /\ mgr_pc = "start_people"
  /\ IF run_people
       THEN \E exception \in {"GCSError", "TypeError"} : MgrRaise(exception)
       ELSE /\ mgr_pc' = "gather"
            /\ UNCHANGED << anime_task, mgr_result >>
  /\ UNCHANGED << run_anime, run_people, resume, anime_checkpoint,
                  people_checkpoint, mgr_runs >>
  /\ UNCHANGED << checkpoint_handler, mgr_others >>

\* "if tasks": await asyncio.gather(*tasks) lets the tasks run
MgrGather ==
  /\ mgr_pc = "gather"
  /\ IF anime_task = "created"
       THEN /\ anime_task' = "running"
            /\ mgr_pc' = "await"
            /\ mgr_result' = mgr_result
       ELSE /\ anime_task' = anime_task
            /\ mgr_pc' = "returned"
            /\ mgr_result' = "None"
  /\ UNCHANGED << run_anime, run_people, resume, anime_checkpoint,
                  people_checkpoint, mgr_runs >>
  /\ UNCHANGED << checkpoint_handler, mgr_others >>

\* the anime task: scrape_all_anime constructs
\* AnimeCheckpointHandler(checkpoint_path) with the path run_scrapers passed
\* (self.anime_checkpoint) and runs up to the end of its loop, saving the
\* checkpoint on the way
MgrAnimeCrawl ==
  /\ anime_task = "running"
  /\ anime_task' = "final_save"
  /\ checkpoint_handler' =
       [checkpoint_handler EXCEPT !["anime"] = "anime_checkpoint"]
  /\ anime_checkpoint' = TRUE
  /\ UNCHANGED << run_anime, run_people, resume, people_checkpoint, mgr_pc,
                  mgr_result, mgr_runs >>
  /\ UNCHANGED mgr_others

\* the anime task: the final save_checkpoint and the return
MgrAnimeFinalSave ==
  /\ anime_task = "final_save"
  /\ anime_task' = "done"
  /\ anime_checkpoint' = TRUE
  /\ UNCHANGED << run_anime, run_people, resume, people_checkpoint, mgr_pc,
                  mgr_result, mgr_runs >>
  /\ UNCHANGED << checkpoint_handler, mgr_others >>

\* gather returns when its tasks are done
MgrReturn ==
  /\ mgr_pc = "await"
  /\ anime_task = "done"
  /\ mgr_pc' = "returned"
  /\ mgr_result' = "None"
  /\ UNCHANGED << run_anime, run_people, resume, anime_checkpoint,
                  people_checkpoint, anime_task, mgr_runs >>
  /\ UNCHANGED << checkpoint_handler, mgr_others >>

\* the checkpoint files a former run may have left
InitMgr ==
  /\ AnimeIdle
  /\ FetchIdle
  /\ LcIdle
  /\ PaceIdle
  /\ StoreIdle
  /\ RetryIdle
  /\ GenIdle
  /\ run_anime = FALSE
  /\ run_people = FALSE
  /\ resume = FALSE
  /\ anime_checkpoint \in BOOLEAN
  /\ people_checkpoint \in BOOLEAN
  /\ anime_task = "none"
  /\ mgr_pc = "idle"
  /\ mgr_result = "none"
  /\ mgr_runs = 0
  /\ checkpoint_handler = NoHandlers

NextMgr ==
  \/ MgrCall
  \/ MgrDelete
  \/ MgrStartAnime
  \/ MgrStartPeople
  \/ MgrGather
  \/ MgrAnimeCrawl
  \/ MgrAnimeFinalSave
  \/ MgrReturn

SpecMgr == InitMgr /\ [][NextMgr]_vars

\* C20: when starting the people driver has failed, the anime driver that
\* run_scrapers has created still runs to its end, final save included.
C20_DriverIsolation ==
  (mgr_pc = "raised" /\ run_people /\ anime_task # "none")
    => anime_task = "done"


\* C21: a run of the manager that was not stopped by the storage setup ends
\* with every driver it was asked to run bound to the checkpoint path
\* configured for that driver: the anime driver to anime_checkpoint, the
\* people driver to people_checkpoint
C21_DriversBound ==
  (mgr_pc \in {"returned", "raised"} /\ mgr_result # "GCSError")
    => /\ run_anime => checkpoint_handler["anime"] = "anime_checkpoint"
       /\ run_people => checkpoint_handler["people"] = "people_checkpoint"

\* ===== JSONDataStorage.store (scraper.py)

Docs == 1 .. MaxDoc

\* a file that holds all of document d
Whole(d) == [kind |-> "file", doc |-> d, chunks |-> DocChunks]

\* a file that was opened for writing and holds nothing yet
Truncated == [kind |-> "file", doc |-> 0, chunks |-> 0]

\* what a file that is being written, or was left half-written, can hold
Partials ==
  {Truncated}
    \cup {[kind |-> "file", doc |-> d, chunks |-> k] :
            d \in Docs, k \in 1 .. DocChunks}

StoreRunning == st_pc \in {"mkdir", "open", "dump", "replace"}

\* store(data, output_path)
StoreCall ==
  /\ st_pc \in {"idle", "returned", "raised", "crashed"}
  /\ st_runs < MaxRuns
  /\ st_runs' = st_runs + 1
  /\ data' \in Docs
  /\ output_path' \in OutputPaths
  /\ st_prev' = fs[output_path']
  /\ st_pc' = "mkdir"
  /\ UNCHANGED fs
  /\ UNCHANGED store_others

\* Path(output_path).parent.mkdir(parents=True, exist_ok=True)
StoreMkdir ==
  /\ st_pc = "mkdir"
  /\ st_pc' = "open"
  /\ UNCHANGED << fs, data, output_path, st_prev, st_runs >>
  /\ UNCHANGED store_others

\* open(temp_path, "w"): creates the temporary file or truncates it
StoreOpen ==
  /\ st_pc = "open"
  /\ fs' = [fs EXCEPT ![temp_path(output_path)] = Truncated]
  /\ st_pc' = "dump"
  /\ UNCHANGED << data, output_path, st_prev, st_runs >>
  /\ UNCHANGED store_others

\* json.dump(data, f): one more part of the document reaches the file; the
\* with block closes the file after the last part
StoreDump ==
  /\ st_pc = "dump"
  /\ LET temp == temp_path(output_path) IN
       /\ fs' = [fs EXCEPT ![temp] = [kind |-> "file", doc |-> data,
                                       chunks |-> fs[temp].chunks + 1]]
       /\ st_pc' = IF fs[temp].chunks + 1 = DocChunks THEN "replace"
                                                       ELSE "dump"
  /\ UNCHANGED << data, output_path, st_prev, st_runs >>
  /\ UNCHANGED store_others

\* Path(temp_path).replace(output_path): os.replace renames in one step
StoreReplace ==
  /\ st_pc = "replace"
  /\ LET temp == temp_path(output_path) IN
       fs' = IF temp = output_path
               THEN fs
               ELSE [fs EXCEPT ![output_path] = fs[temp], ![temp] = NoFile]
  /\ st_pc' = "returned"
  /\ UNCHANGED << data, output_path, st_prev, st_runs >>
  /\ UNCHANGED store_others

\* "except Exception as e": an error of mkdir, open, json.dump or replace is
\* logged and IOError is raised; the files stay as the failed call left them
StoreFail ==
  /\ StoreRunning
  /\ st_pc' = "raised"
  /\ UNCHANGED << fs, data, output_path, st_prev, st_runs >>
  /\ UNCHANGED store_others

\* the process dies inside store
StoreCrash ==
  /\ StoreRunning
  /\ st_pc' = "crashed"
  /\ UNCHANGED << fs, data, output_path, st_prev, st_runs >>
  /\ UNCHANGED store_others

\* the output directory as earlier calls of store may have left it: whole
\* documents under the output paths, anything under the temporary paths
InitStore ==
  /\ AnimeIdle
  /\ FetchIdle
  /\ LcIdle
  /\ PaceIdle
  /\ MgrIdle
  /\ RetryIdle
  /\ GenIdle
  /\ fs \in [Paths -> {NoFile} \cup Partials]
  /\ \A path \in OutputPaths : fs[path] \in {NoFile} \cup {Whole(d) : d \in Docs}
  /\ data = 0
  /\ output_path = "None"
  /\ st_pc = "idle"
  /\ st_prev = NoFile
  /\ st_runs = 0

NextStore ==
  \/ StoreCall
  \/ StoreMkdir
  \/ StoreOpen
  \/ StoreDump
  \/ StoreReplace
  \/ StoreFail
  \/ StoreCrash

SpecStore == InitStore /\ [][NextStore]_vars

\* C26: at every point of a call of store, a crash or a failure included, the
\* target path is absent or holds a whole document: it holds what it held
\* when store was called or the whole new document, and after store has
\* returned it holds the whole new document
C26_NeverHalfWritten ==
  /\ \A path \in OutputPaths :
       fs[path] \in {NoFile} \cup {Whole(d) : d \in Docs}
  /\ st_pc # "idle" => fs[output_path] \in {st_prev, Whole(data)}
  /\ st_pc = "returned" => fs[output_path] = Whole(data)

\* the process died while the second document was half-written: the target
\* still holds the whole first document
C26_Witness ==
  /\ st_pc = "crashed"
  /\ data = 2
  /\ st_prev = Whole(1)
  /\ fs[output_path] = Whole(1)
  /\ fs[temp_path(output_path)] = [kind |-> "file", doc |-> 2, chunks |-> 1]

\* ===== make_request (retry.py)

\* attempts that are counted; from here on wait_exponential stays at its
\* maximum and attempt_number is kept at this value
MaxAttempts == 7

\* the status codes of an attempt; 0: session.request raised (ConnectionError,
\* Timeout) and there is no response. The session follows redirects.
Statuses == {0, 200, 204, 404, 429, 500}

\* the URLs that are asked for, named by how their server behaves
Urls == {"ok", "flaky", "gone", "down"}

\* what an attempt on the URL can end with
Served(u) ==
  CASE u = "ok" -> {200, 204}
    [] u = "flaky" -> Statuses
    [] u = "gone" -> {404}
    [] u = "down" -> {0, 500}

\* response.raise_for_status(): HTTPError for a 4xx or 5xx status
raise_for_status(status_code) == 400 <= status_code /\ status_code < 600

\* the attempt raised: in session.request or in raise_for_status
Failed(status_code) == status_code = 0 \/ raise_for_status(status_code)

\* wait=wait_exponential(multiplier=1, min=1, max=60), in seconds
wait_exponential(n) ==
  LET exp == 2 ^ (n - 1) IN
    IF exp < 1 THEN 1 ELSE IF exp > 60 THEN 60 ELSE exp

\* stop=stop_never
stop_after_attempt(n) == n >= 3
stop(n) == FALSE

\* make_request(method, url, **kwargs)
RetryCall ==
  /\ r_pc \in {"idle", "returned", "raised"}
  /\ r_calls < MaxRuns
  /\ r_calls' = r_calls + 1
  /\ url' \in Urls
  /\ attempt_number' = 1
  /\ response' = 0
  /\ r_wait' = 0
  /\ r_pc' = "request"
  /\ UNCHANGED retry_others

\* one attempt: session.request, raise_for_status, return response; tenacity
\* catches what the attempt raised, asks stop and computes the wait
RetryAttempt ==
  /\ r_pc = "request"
  /\ \E status_code \in Served(url) :
       /\ response' = status_code
       /\ IF ~Failed(status_code)
            THEN r_pc' = "returned" /\ r_wait' = r_wait
            ELSE IF stop(attempt_number)
                   THEN r_pc' = "raised" /\ r_wait' = r_wait
                   ELSE /\ r_pc' = "sleep"
                        /\ r_wait' = wait_exponential(attempt_number)
  /\ UNCHANGED << url, attempt_number, r_calls >>
  /\ UNCHANGED retry_others

\* tenacity sleeps for the wait and starts the next attempt
RetrySleep ==
  /\ r_pc = "sleep"
  /\ attempt_number' = Min({attempt_number + 1, MaxAttempts})
  /\ r_pc' = "request"
  /\ UNCHANGED << url, response, r_wait, r_calls >>
  /\ UNCHANGED retry_others

InitRetry ==
  /\ AnimeIdle
  /\ FetchIdle
  /\ LcIdle
  /\ PaceIdle
  /\ MgrIdle
  /\ StoreIdle
  /\ RetryIdle
  /\ GenIdle

NextRetry ==
  \/ RetryCall
  \/ RetryAttempt
  \/ RetrySleep

SpecRetry == InitRetry /\ [][NextRetry]_vars

\* C30: make_request never gives up: it never raises to its caller, it
\* returns only a response whose status passes raise_for_status, every failed
\* attempt (no response, or a 4xx or 5xx status such as 404) is followed by a
\* sleep and another attempt on the same URL, and a call on a URL whose
\* every attempt fails stays in the retry loop for ever
C30_NeverGivesUp ==
  /\ [](r_pc # "raised")
  /\ [](r_pc = "returned" => (response # 0 /\ ~raise_for_status(response)))
  /\ [][(r_pc = "request" /\ Failed(response')) => r_pc' = "sleep"]_vars
  /\ [][(r_pc = "sleep")
         => (r_pc' = "request" /\ url' = url
               /\ attempt_number' >= attempt_number)]_vars
  /\ []((r_pc # "idle" /\ \A status_code \in Served(url) : Failed(status_code))
         => r_pc \in {"request", "sleep"})

\* the seventh attempt on a URL that answers 404 has failed and the call
\* sleeps for the maximum wait before the next one
C30_Witness ==
  /\ url = "gone"
  /\ response = 404
  /\ attempt_number = 7
  /\ r_wait = 60
  /\ r_pc = "sleep"

\* ===== MALUrlGenerator.generate (scraper.py)

\* the largest ID of the calls, next to the ID of test_url_generation
MaxMalId == 12

\* number of calls of generate
GenCalls == 3

MalIds == 0 .. MaxMalId \cup {30123}

\* the literal part of the f-string
ANIME_URL == "https://myanimelist.net/anime/"

DIGITS == << "0", "1", "2", "3", "4", "5", "6", "7", "8", "9" >>

\* str(n) of an int n >= 0: its decimal digits, most significant first
RECURSIVE str(_)
str(n) ==
  IF n < 10 THEN DIGITS[n + 1]
            ELSE str(n \div 10) \o DIGITS[(n % 10) + 1]

\* a generate that formats the last digit of the ID only
generate_last_digit(mal_id) == ANIME_URL \o str(mal_id % 10)

\* f"https://myanimelist.net/anime/{mal_id}"
generate(mal_id) == ANIME_URL \o str(mal_id)

\* url = self.url_generator.generate(mal_id), for one of the two IDs
Generate ==
  /\ g_calls < GenCalls
  /\ g_calls' = g_calls + 1
  /\ \E i \in 1 .. 2 : g_urls' = [g_urls EXCEPT ![i] = generate(mal_ids[i])]
  /\ UNCHANGED mal_ids
  /\ UNCHANGED gen_others

InitGen ==
  /\ AnimeIdle
  /\ FetchIdle
  /\ LcIdle
  /\ PaceIdle
  /\ MgrIdle
  /\ StoreIdle
  /\ RetryIdle
  /\ mal_ids \in MalIds \X MalIds
  /\ g_urls = << "None", "None" >>
  /\ g_calls = 0

NextGen == Generate

SpecGen == InitGen /\ [][NextGen]_vars

\* the value of a string of decimal digits
RECURSIVE int(_)
int(s) ==
  IF Len(s) = 0 THEN 0
  ELSE 10 * int(SubSeq(s, 1, Len(s) - 1))
         + (CHOOSE d \in 0 .. 9 : DIGITS[d + 1] = SubSeq(s, Len(s), Len(s)))

\* the calls that have returned
Generated == {i \in 1 .. 2 : g_urls[i] # "None"}

\* C31: generate(id) is the fixed base https://myanimelist.net/anime/
\* followed by the decimal digits of the ID, a call with the same ID returns
\* the same URL again, and two calls return equal URLs exactly when their IDs
\* are equal
C31_UrlDeterministicInjective ==
  /\ [](\A i \in Generated :
          /\ SubSeq(g_urls[i], 1, Len(ANIME_URL)) = ANIME_URL
          /\ Len(g_urls[i]) > Len(ANIME_URL)
          /\ int(SubSeq(g_urls[i], Len(ANIME_URL) + 1, Len(g_urls[i])))
               = mal_ids[i]
          /\ (mal_ids[i] > 0
                => SubSeq(g_urls[i], Len(ANIME_URL) + 1, Len(ANIME_URL) + 1)
                     # "0"))
  /\ [](Generated = {1, 2}
          => ((g_urls[1] = g_urls[2]) <=> (mal_ids[1] = mal_ids[2])))
  /\ [][\A i \in Generated : g_urls'[i] = g_urls[i]]_vars

\* the call of test_url_generation, made twice, next to a call with another ID
C31_Witness ==
  /\ g_calls = 3
  /\ mal_ids = << 30123, 12 >>
  /\ g_urls[1] = "https://myanimelist.net/anime/30123"
  /\ g_urls[2] = "https://myanimelist.net/anime/12"

====
